---- MODULE Spec2Model ----
(***************************************************************************)
(* Semileptonic ttbar reconstruction of IPNL-CMS/tt-res-analysis.          *)
(*                                                                         *)
(* The model follows one plugin path of the framework: for every event the *)
(* readers publish jets, leptons and MET, then (chi-squared path only) the *)
(* neutrino plugin NuRecoRunI runs, then the reconstruction plugin         *)
(* (TTSemilepRecoChi2 or TTSemilepRecoRochester, both built on             *)
(* TTSemilepRecoBase::PerformJetAssignment), then TTObservables.           *)
(*                                                                         *)
(* Kinematics are abstracted to small integers: every physics object has   *)
(* a scalar m, jets have also pt and eta, and the invariant mass (or pt)   *)
(* of a sum of objects is the sum of their scalars.  Leptons, the MET and  *)
(* the neutrino candidates carry also momentum components, on which        *)
(* NuRecoRunI solves the W-mass constraint.  Doubles are integers extended *)
(* with Inf (and -Inf) and NaN; quotients and square roots are rounded     *)
(* down.                                                                   *)
(*                                                                         *)
(* CHOOSE out \in {F(x) : x \in {e}} : TRUE is F(e) with e evaluated once   *)
(* and named x.                                                            *)
(***************************************************************************)
EXTENDS Integers, Sequences, FiniteSets, TLC

VARIABLES
    pc,        \* which handler runs next
    plugin,    \* "Chi2" or "Rochester": the reconstruction plugin registered
    nEvents,   \* number of events read so far
    jets,      \* JetMETReader: jets of the current event
    leptons,   \* LeptonReader: leptons of the current event
    met,       \* JetMETReader: MET of the current event
    nuReco,    \* NuRecoRunI object
    ttReco,    \* TTSemilepRecoBase + derived class object
    calls,     \* history: ComputeRank invocations made for the current event
    nWrites,   \* history: writes of recoStatus made for the current event
    obs        \* TTObservables: outcome of ProcessEvent for the current event

vars == <<pc, plugin, nEvents, jets, leptons, met, nuReco, ttReco, calls, nWrites, obs>>

(***************************************************************************)
(* Bounds of the model                                                     *)
(***************************************************************************)
MaxJets == 4      \* jets per event
MaxPt == 1        \* jet pt takes values 1..MaxPt
MaxEta == 0       \* jet |eta| takes values 0..MaxEta
MaxM == 1         \* jet scalar m takes values 0..MaxM
MaxMet == 1       \* the MET is (-2k, 0) for k in 0..MaxMet, or NaN
MaxTerms == 1     \* chi2 terms added during setup
MaxEvents == 2    \* events per run

(***************************************************************************)
(* Doubles                                                                 *)
(***************************************************************************)
Inf == 1000
NegInf == -Inf
NaN == Inf + 1

IsNaN(x) == x = NaN

\* x + y
Add(x, y) ==
    IF IsNaN(x) \/ IsNaN(y) THEN NaN
    ELSE IF (x = Inf /\ y = NegInf) \/ (x = NegInf /\ y = Inf) THEN NaN
    ELSE IF x = Inf \/ y = Inf THEN Inf
    ELSE IF x = NegInf \/ y = NegInf THEN NegInf
    ELSE x + y

\* -x
Neg(x) == IF IsNaN(x) THEN NaN ELSE -x

\* x < y and x > y: false when either side is NaN
Lt(x, y) == ~IsNaN(x) /\ ~IsNaN(y) /\ x < y
Gt(x, y) == Lt(y, x)

\* x - y
Sub(x, y) == Add(x, Neg(y))

\* x * y
Mul(x, y) ==
    IF IsNaN(x) \/ IsNaN(y) THEN NaN
    ELSE IF x \in {Inf, NegInf} \/ y \in {Inf, NegInf}
    THEN (IF x = 0 \/ y = 0 THEN NaN
          ELSE IF (x > 0) = (y > 0) THEN Inf ELSE NegInf)
    ELSE x * y

\* x == y: false when either side is NaN
Eq(x, y) == ~IsNaN(x) /\ ~IsNaN(y) /\ x = y

\* std::pow(x, 2)
Sq(x) == IF IsNaN(x) THEN NaN ELSE IF x = Inf \/ x = NegInf THEN Inf ELSE x * x

\* std::sqrt
Sqrt(x) ==
    IF IsNaN(x) \/ x < 0 THEN NaN
    ELSE IF x = Inf THEN Inf
    ELSE CHOOSE d \in 0..x : d * d <= x /\ (d + 1) * (d + 1) > x

\* std::abs
Abs(x) == IF IsNaN(x) THEN NaN ELSE IF x < 0 THEN -x ELSE x

NullPtr == 0

\* TTSemilepRecoBase::GetRecoStatus and TTSemilepRecoBase::GetRank
GetRecoStatus(r) == r.recoStatus
GetRank(r) == r.highestRank

(***************************************************************************)
(* Physics objects                                                         *)
(***************************************************************************)
Jet == [pt : 1..MaxPt, eta : 0..MaxEta, m : 0..MaxM]

\* A massless lepton of momentum (px, py, pz) along one axis; m is the scalar
\* with which the lepton enters the invariant masses of the reconstruction
Lepton(px, py, pz, m) ==
    [px |-> px, py |-> py, pz |-> pz, e |-> Abs(px) + Abs(py) + Abs(pz),
     pt |-> Abs(px) + Abs(py), m |-> m]

\* Missing transverse momentum (px, py); m is its magnitude, TLorentzVector::Pt
Met(px, py) == [px |-> px, py |-> py, m |-> Sqrt(Add(Sq(px), Sq(py)))]

\* The leading lepton and the MET of an event
LeptonKinds == {Lepton(0, 0, 1, 0), Lepton(1, 0, 0, 1)}
MetKinds == {Met(-2 * k, 0) : k \in 0..MaxMet} \cup {Met(NaN, NaN)}

RECURSIVE Flatten(_)
Flatten(ss) == IF ss = <<>> THEN <<>> ELSE Head(ss) \o Flatten(Tail(ss))

\* The jet collection delivered by the reader is ordered in pt
PtOrdered(js) == \A i \in 1..(Len(js) - 1) : js[i].pt >= js[i + 1].pt

(***************************************************************************)
(* TTSemilepRecoBase::PerformJetAssignment: selection of jets              *)
(* Positions are 1-based here (0-based in the code).                       *)
(***************************************************************************)
\* Variant of SelectJets that ends the scan also at a jet outside the eta range
RECURSIVE SelectJetsBreakOnEta(_, _, _, _, _)
SelectJetsBreakOnEta(js, minPt, maxAbsEta, i, acc) ==
    IF i > Len(js) THEN acc
    ELSE IF Gt(Abs(js[i].eta), maxAbsEta) THEN acc
    ELSE IF Lt(js[i].pt, minPt) THEN acc
    ELSE SelectJetsBreakOnEta(js, minPt, maxAbsEta, i + 1, Append(acc, i))

\* Variant of SelectJets that skips a jet below the pt threshold and goes on
RECURSIVE SelectJetsContinueOnPt(_, _, _, _, _)
SelectJetsContinueOnPt(js, minPt, maxAbsEta, i, acc) ==
    IF i > Len(js) THEN acc
    ELSE IF Gt(Abs(js[i].eta), maxAbsEta)
    THEN SelectJetsContinueOnPt(js, minPt, maxAbsEta, i + 1, acc)
    ELSE IF Lt(js[i].pt, minPt) THEN SelectJetsContinueOnPt(js, minPt, maxAbsEta, i + 1, acc)
    ELSE SelectJetsContinueOnPt(js, minPt, maxAbsEta, i + 1, Append(acc, i))

\* Variant of SelectJets without the eta cut
RECURSIVE SelectJetsAnyEta(_, _, _, _, _)
SelectJetsAnyEta(js, minPt, maxAbsEta, i, acc) ==
    IF i > Len(js) THEN acc
    ELSE IF Lt(js[i].pt, minPt) THEN acc
    ELSE SelectJetsAnyEta(js, minPt, maxAbsEta, i + 1, Append(acc, i))

\* lines 108-119
RECURSIVE SelectJets(_, _, _, _, _)
SelectJets(js, minPt, maxAbsEta, i, acc) ==
    IF i > Len(js) THEN acc
    ELSE IF Gt(Abs(js[i].eta), maxAbsEta) THEN SelectJets(js, minPt, maxAbsEta, i + 1, acc)
    ELSE IF Lt(js[i].pt, minPt) THEN acc
    ELSE SelectJets(js, minPt, maxAbsEta, i + 1, Append(acc, i))

(***************************************************************************)
(* TTSemilepRecoBase::PerformJetAssignment: the four nested loops.         *)
(* A tuple <<iiL, iiH, iiQ1, iiQ2>> holds positions in selectedJetIndices. *)
(***************************************************************************)
\* line 136: if (iiBTopLepCand == iiBTopHadCand) continue;
SkipBTopHad(iiL, iiH) == iiL = iiH

\* line 141: if (iiQ1TopHadCand == iiBTopLepCand or iiQ1TopHadCand == iiBTopHadCand) continue;
SkipQ1TopHad(iiL, iiH, iiQ1) == iiQ1 = iiL \/ iiQ1 = iiH

\* Variant of FirstQ2TopHad that starts the innermost loop at the first jet
FirstQ2TopHadFromStart(iiQ1) == 1

\* line 146: iiQ2TopHadCand = iiQ1TopHadCand + 1
FirstQ2TopHad(iiQ1) == iiQ1 + 1

\* lines 146-153: the innermost loop; its body has no continue
Q2Loop(n, iiL, iiH, iiQ1) ==
    [k \in 1..(n - FirstQ2TopHad(iiQ1) + 1) |-> <<iiL, iiH, iiQ1, FirstQ2TopHad(iiQ1) + k - 1>>]

Q1Loop(n, iiL, iiH) ==
    Flatten([iiQ1 \in 1..n |->
        IF SkipQ1TopHad(iiL, iiH, iiQ1) THEN <<>> ELSE Q2Loop(n, iiL, iiH, iiQ1)])

BTopHadLoop(n, iiL) ==
    Flatten([iiH \in 1..n |-> IF SkipBTopHad(iiL, iiH) THEN <<>> ELSE Q1Loop(n, iiL, iiH)])

\* All interpretations in the order the loops construct them
Interpretations(n) == Flatten([iiL \in 1..n |-> BTopHadLoop(n, iiL)])

(***************************************************************************)
(* TTSemilepRecoChi2                                                       *)
(***************************************************************************)
Expressions == {"MassTopLep", "MassTopHad", "MassWHad", "PtTT"}

\* exprMassTopLep, exprMassTopHad, exprMassWHad, exprPtTT
ExprValue(expression, l, nu, bTopLep, bTopHad, q1TopHad, q2TopHad) ==
    CASE expression = "MassTopLep" -> Add(l.m + bTopLep.m, nu.m)
      [] expression = "MassTopHad" -> bTopHad.m + q1TopHad.m + q2TopHad.m
      [] expression = "MassWHad" -> q1TopHad.m + q2TopHad.m
      [] expression = "PtTT" ->
            Add(l.pt + bTopLep.pt + bTopHad.pt + q1TopHad.pt + q2TopHad.pt, nu.pt)

\* x / y, rounded down to an integer when y does not divide x
Div(x, y) ==
    IF IsNaN(x) \/ IsNaN(y) THEN NaN
    ELSE IF y = 0 THEN (IF x = 0 THEN NaN ELSE IF x > 0 THEN Inf ELSE NegInf)
    ELSE IF y \in {Inf, NegInf} THEN (IF x \in {Inf, NegInf} THEN NaN ELSE 0)
    ELSE IF x \in {Inf, NegInf} THEN (IF (x > 0) = (y > 0) THEN Inf ELSE NegInf)
    ELSE x \div y

\* Chi2Term::Eval
Eval(term, l, nu, bTopLep, bTopHad, q1TopHad, q2TopHad) ==
    LET x == ExprValue(term.expression, l, nu, bTopLep, bTopHad, q1TopHad, q2TopHad)
    IN  Sq(Div(Sub(x, term.mean), term.variance))

\* TTSemilepRecoChi2::ComputeRank, lines 149-153: chi2 of one neutrino solution
RECURSIVE SumTerms(_, _, _, _, _, _, _, _)
SumTerms(terms, k, l, nu, bTopLep, bTopHad, q1TopHad, q2TopHad) ==
    IF k > Len(terms) THEN 0
    ELSE Add(Eval(terms[k], l, nu, bTopLep, bTopHad, q1TopHad, q2TopHad),
             SumTerms(terms, k + 1, l, nu, bTopLep, bTopHad, q1TopHad, q2TopHad))

Chi2Of(terms, l, nu, bTopLep, bTopHad, q1TopHad, q2TopHad) ==
    SumTerms(terms, 1, l, nu, bTopLep, bTopHad, q1TopHad, q2TopHad)

\* Variant of BetterInInterp that keeps the greater chi2
BetterInInterpGreater(chi2, minChi2CurInterp) ==
    minChi2CurInterp = Inf \/ Gt(chi2, minChi2CurInterp)

\* line 157: if (chi2 < minChi2CurInterp)
BetterInInterp(chi2, minChi2CurInterp) == Lt(chi2, minChi2CurInterp)

\* Variant of BetterInEvent that keeps the candidate of the greater chi2
BetterInEventGreater(chi2, minChi2) == minChi2 = Inf \/ Gt(chi2, minChi2)

\* line 162: if (chi2 < minChi2)
BetterInEvent(chi2, minChi2) == Lt(chi2, minChi2)

\* TTSemilepRecoChi2::ComputeRank, lines 155-166: the two updates made for the
\* neutrino solution k of chi-squared chi2.
\* acc = [cur |-> minChi2CurInterp, r |-> the object]
Chi2NuStep(acc, chi2, k) ==
    [cur |-> IF BetterInInterp(chi2, acc.cur) THEN chi2 ELSE acc.cur,
     r |-> IF BetterInEvent(chi2, acc.r.minChi2)
           THEN [acc.r EXCEPT !.minChi2 = chi2, !.bestNu = k]
           ELSE acc.r]

\* TTSemilepRecoChi2::ComputeRank, lines 146-167: the loop over neutrino solutions
RECURSIVE Chi2NuLoop(_, _, _, _, _, _, _, _)
Chi2NuLoop(acc, nus, k, l, bTopLep, bTopHad, q1TopHad, q2TopHad) ==
    IF k > Len(nus) THEN acc
    ELSE
        LET next == CHOOSE step \in
                        {Chi2NuStep(acc, chi2, k) :
                            chi2 \in {Chi2Of(acc.r.chi2Terms, l, nus[k], bTopLep, bTopHad,
                                             q1TopHad, q2TopHad)}} : TRUE
        IN  Chi2NuLoop(next, nus, k + 1, l, bTopLep, bTopHad, q1TopHad, q2TopHad)

\* TTSemilepRecoChi2::ComputeRank.  Returns [rank, r, solver]: the rank, the
\* object after the call and the use made of the ellipse solver (none here).
\* js, ls, nus are the collections of the readers and of the neutrino plugin;
\* iL, iH, i1, i2 are positions in js.
Chi2ComputeRank(r, js, ls, nus, iL, iH, i1, i2) ==
    CHOOSE out \in
        {[rank |-> Neg(res.cur), r |-> res.r, solver |-> "none"] :
            res \in {Chi2NuLoop([cur |-> Inf, r |-> r], nus, 1, ls[1], js[iL], js[iH],
                                js[i1], js[i2])}} : TRUE

(***************************************************************************)
(* NuRecoRochester (ellipse solver).  Its implementation file is not part  *)
(* of the sources; it is modelled from the class documentation and spec.   *)
(***************************************************************************)
\* Top-quark mass hypothesis in the units of the scalars m
MT == 1

\* "presumably, happens when m(l, b) > mt"
IsReconstructable(lep, bjet) == lep.m + bjet.m <= MT

\* GetBest: the solution and the squared distance to the measured MET
GetBest(lep, bjet, metv) ==
    LET d == Add(metv.m, bjet.pt - 1)
    IN  [p4 |-> [kind |-> "solved", lep |-> lep, bjet |-> bjet, met |-> metv.m],
         test |-> Sq(d)]

\* Candidate::SetPxPyPzE(0., 0., 0., 0.)
ZeroP4 ==
    [kind |-> "zero", lep |-> Lepton(0, 0, 0, 0), bjet |-> [pt |-> 0, eta |-> 0, m |-> 0],
     met |-> 0]

(***************************************************************************)
(* Likelihood histograms of TTSemilepRecoRochester (unit-width bins        *)
(* starting at 0; densities are 0 or powers of two)                        *)
(***************************************************************************)
\* TH1 likelihoodNeutrino: densities of the bins 1..3
likelihoodNeutrino == <<2, 1, 1>>

\* TH2 likelihoodMass: densities of the bins (mW, mTop) in 1..2 x 1..3
likelihoodMass == <<(<<0, 1, 1>>), (<<1, 2, 4>>)>>

\* TAxis::FindFixBin on an axis of nbins bins: nbins + 1 is the overflow bin
FindAxisBin(x, nbins) ==
    IF IsNaN(x) THEN nbins + 1
    ELSE IF x < 0 THEN 0
    ELSE IF x >= nbins THEN nbins + 1
    ELSE x + 1

\* TH1::IsBinOverflow for a 1-D and for a 2-D histogram
IsBinOverflow1(bin) == bin = Len(likelihoodNeutrino) + 1
IsBinOverflow2(bin) ==
    bin[1] = Len(likelihoodMass) + 1 \/ bin[2] = Len(likelihoodMass[1]) + 1

\* std::log of a density
Log(c) == IF c = 0 THEN NegInf ELSE CHOOSE k \in 0..2 : 2 ^ k = c

(***************************************************************************)
(* TTSemilepRecoRochester::ComputeRank                                     *)
(***************************************************************************)
\* Variant of CacheHit that takes the cached neutrino for every jet
CacheHitAlways(r, iL) == TRUE

\* line 144: if (&bTopLep == cachedBTopLep)
CacheHit(r, iL) == iL = r.cachedBTopLep

\* Variant of BetterThanBest that also takes a log-likelihood equal to the rank
BetterThanBestOrEqual(logLikelihood, r) ==
    Gt(logLikelihood, GetRank(r)) \/ logLikelihood = GetRank(r)

\* line 203: if (logLikelihood > GetRank())
BetterThanBest(logLikelihood, r) == Gt(logLikelihood, GetRank(r))

\* lines 184-207: the part after the neutrino has been obtained
RochesterMassPart(r, js, logLikelihoodNu, p4Nu, iH, i1, i2, solver) ==
    LET mW == js[i1].m + js[i2].m
        mTop == mW + js[iH].m
        bin == <<FindAxisBin(mW, Len(likelihoodMass)), FindAxisBin(mTop, Len(likelihoodMass[1]))>>
    IN  IF IsBinOverflow2(bin) THEN [rank |-> NegInf, r |-> r, solver |-> solver]
        ELSE
            LET logLikelihood == Add(logLikelihoodNu, Log(likelihoodMass[bin[1]][bin[2]]))
                r1 == [r EXCEPT !.massLikelihoodInRange = TRUE]
            IN  [rank |-> logLikelihood,
                 r |-> IF BetterThanBest(logLikelihood, r1)
                       THEN [r1 EXCEPT !.neutrino = p4Nu]
                       ELSE r1,
                 solver |-> solver]

\* lines 160-181: the part after GetBest has returned best; bin is the bin of
\* likelihoodNeutrino for the distance
RochesterNeutrinoPart(r, js, best, bin, iH, i1, i2) ==
    IF IsBinOverflow1(bin)
    THEN [rank |-> NegInf, r |-> [r EXCEPT !.neutrinoReconstructed = TRUE], solver |-> "best"]
    ELSE RochesterMassPart([r EXCEPT !.neutrinoReconstructed = TRUE,
                                     !.neutrinoLikelihoodInRange = TRUE,
                                     !.cachedP4Nu = best.p4,
                                     !.cachedLogLikelihoodNu = Log(likelihoodNeutrino[bin])],
                           js, Log(likelihoodNeutrino[bin]), best.p4, iH, i1, i2, "best")

\* Variant of RochesterComputeRank that calls GetBest without asking
\* IsReconstructable
RochesterComputeRankNoTest(r, js, ls, metv, iL, iH, i1, i2) ==
    IF CacheHit(r, iL)
    THEN RochesterMassPart(r, js, r.cachedLogLikelihoodNu, r.cachedP4Nu, iH, i1, i2, "none")
    ELSE CHOOSE out \in
            {RochesterNeutrinoPart(r, js, best,
                                   FindAxisBin(Sqrt(best.test), Len(likelihoodNeutrino)),
                                   iH, i1, i2) :
                best \in {GetBest(ls[r.lepton], js[iL], metv)}} : TRUE

\* Returns [rank, r, solver]: the rank, the object after the call and the use
\* made of the ellipse solver: "none" (cached neutrino), "ctor" (constructed,
\* not reconstructable) or "best" (GetBest called)
RochesterComputeRank(r, js, ls, metv, iL, iH, i1, i2) ==
    IF CacheHit(r, iL)
    THEN RochesterMassPart(r, js, r.cachedLogLikelihoodNu, r.cachedP4Nu, iH, i1, i2, "none")
    ELSE IF ~IsReconstructable(ls[r.lepton], js[iL])
    THEN [rank |-> NegInf, r |-> r, solver |-> "ctor"]
    ELSE CHOOSE out \in
            {RochesterNeutrinoPart(r, js, best,
                                   FindAxisBin(Sqrt(best.test), Len(likelihoodNeutrino)),
                                   iH, i1, i2) :
                best \in {GetBest(ls[r.lepton], js[iL], metv)}} : TRUE

(***************************************************************************)
(* TTSemilepRecoBase::PerformJetAssignment                                 *)
(***************************************************************************)
\* The virtual call of ComputeRank
ComputeRank(r, strategy, js, ls, nus, metv, iL, iH, i1, i2) ==
    IF strategy = "Chi2" THEN Chi2ComputeRank(r, js, ls, nus, iL, iH, i1, i2)
    ELSE RochesterComputeRank(r, js, ls, metv, iL, iH, i1, i2)

\* Variant of Accept that also accepts an equal rank
AcceptOrEqual(rank, highestRank) == Gt(rank, highestRank) \/ rank = highestRank

\* Variant of Accept with the comparison reversed
AcceptLower(rank, highestRank) == Lt(rank, highestRank)

\* line 155: if (rank > highestRank)
Accept(rank, highestRank) == Gt(rank, highestRank)

\* lines 155-162: the interpretation of the jets c, ranked res.rank, becomes
\* the best one if its rank is higher
UpdateBest(res, c) ==
    IF Accept(res.rank, res.r.highestRank)
    THEN [res.r EXCEPT !.highestRank = res.rank, !.bTopLep = c[1], !.bTopHad = c[2],
                       !.q1TopHad = c[3], !.q2TopHad = c[4]]
    ELSE res.r

\* lines 150-153: the jets of the interpretation t
Candidates(sel, t) == <<sel[t[1]], sel[t[2]], sel[t[3]], sel[t[4]]>>

\* lines 150-163: the body of the innermost loop for the interpretation t.
\* acc = [calls |-> the ComputeRank invocations so far, r |-> the object];
\* an invocation is recorded with its rank, its use of the ellipse solver and
\* whether it changed the object
EvaluateInterpretation(acc, t, strategy, js, ls, nus, metv) ==
    CHOOSE out \in
        {[calls |-> Append(acc.calls,
                           [ii |-> t, jets |-> Candidates(acc.r.selectedJetIndices, t),
                            rank |-> res.rank, solver |-> res.solver,
                            changed |-> res.r # acc.r]),
          r |-> UpdateBest(res, Candidates(acc.r.selectedJetIndices, t))] :
            res \in {ComputeRank(acc.r, strategy, js, ls, nus, metv,
                                 acc.r.selectedJetIndices[t[1]], acc.r.selectedJetIndices[t[2]],
                                 acc.r.selectedJetIndices[t[3]], acc.r.selectedJetIndices[t[4]])}} :
        TRUE

\* lines 133-166: the loop body applied to the interpretations tuples[lo..hi]
\* in their order (the range is halved to keep the evaluation shallow)
RECURSIVE RankLoop(_, _, _, _, _, _, _, _, _)
RankLoop(acc, tuples, lo, hi, strategy, js, ls, nus, metv) ==
    IF lo > hi THEN acc
    ELSE IF lo = hi THEN EvaluateInterpretation(acc, tuples[lo], strategy, js, ls, nus, metv)
    ELSE CHOOSE out \in
            {RankLoop(first, tuples, ((lo + hi) \div 2) + 1, hi, strategy, js, ls, nus, metv) :
                first \in {RankLoop(acc, tuples, lo, (lo + hi) \div 2, strategy, js, ls, nus,
                                    metv)}} : TRUE

\* Variant of NotEnoughJets that also refuses exactly four jets
NotEnoughJetsOffByOne(nSelectedJets) == nSelectedJets <= 4

\* line 125: if (nSelectedJets < 4)
NotEnoughJets(nSelectedJets) == nSelectedJets < 4

\* line 127: the status written when fewer than four jets are selected
InsufficientJets == 1

\* lines 102-104: reset of the current-best interpretation
ResetBest(r) ==
    [r EXCEPT !.highestRank = NegInf, !.bTopLep = NullPtr, !.bTopHad = NullPtr,
              !.q1TopHad = NullPtr, !.q2TopHad = NullPtr]

\* lines 133-169: the loops over the interpretations, then recoStatus = 0
RankAll(r0, strategy, js, ls, nus, metv) ==
    CHOOSE out \in
        {[r |-> [acc.r EXCEPT !.recoStatus = 0], calls |-> acc.calls, writes |-> 1] :
            acc \in {RankLoop([calls |-> <<>>, r |-> r0],
                              Interpretations(Len(r0.selectedJetIndices)), 1,
                              Len(Interpretations(Len(r0.selectedJetIndices))),
                              strategy, js, ls, nus, metv)}} : TRUE

\* Returns [r, calls, writes]: the object, the ComputeRank invocations made
\* and the number of writes of recoStatus
PerformJetAssignment(r, strategy, js, ls, nus, metv) ==
    CHOOSE out \in
        {IF NotEnoughJets(Len(r0.selectedJetIndices))
         THEN [r |-> [r0 EXCEPT !.recoStatus = InsufficientJets], calls |-> <<>>, writes |-> 1]
         ELSE RankAll(r0, strategy, js, ls, nus, metv) :
            r0 \in {[ResetBest(r) EXCEPT
                        !.selectedJetIndices = SelectJets(js, r.minPt, r.maxAbsEta, 1, <<>>)]}} :
        TRUE

\* TTSemilepRecoBase::SetRecoFailure
SetRecoFailure(r, code) == [r EXCEPT !.recoStatus = code]

(***************************************************************************)
(* ProcessEvent of the two reconstruction plugins                          *)
(***************************************************************************)
\* Variant of Chi2ProcessEvent that tests the leptons only
Chi2ProcessEventLeptonOnly(r, js, ls, nus, metv) ==
    LET r0 == [r EXCEPT !.minChi2 = Inf, !.bestNu = NullPtr]
    IN  IF Len(ls) = 0
        THEN [r |-> SetRecoFailure(r0, 1), calls |-> <<>>, writes |-> 1]
        ELSE PerformJetAssignment(r0, "Chi2", js, ls, nus, metv)

\* Variant of Chi2ProcessEvent that keeps minChi2 and bestNu of the previous event
Chi2ProcessEventNoReset(r, js, ls, nus, metv) ==
    IF Len(ls) = 0 \/ Len(nus) = 0
    THEN [r |-> SetRecoFailure(r, 1), calls |-> <<>>, writes |-> 1]
    ELSE PerformJetAssignment(r, "Chi2", js, ls, nus, metv)

\* TTSemilepRecoChi2::ProcessEvent
Chi2ProcessEvent(r, js, ls, nus, metv) ==
    LET r0 == [r EXCEPT !.minChi2 = Inf, !.bestNu = NullPtr]
    IN  IF Len(ls) = 0 \/ Len(nus) = 0
        THEN [r |-> SetRecoFailure(r0, 1), calls |-> <<>>, writes |-> 1]
        ELSE PerformJetAssignment(r0, "Chi2", js, ls, nus, metv)

\* Variant of RochesterFailureCode that tests the mass flag first
RochesterFailureCodeMassFirst(r) ==
    IF ~r.massLikelihoodInRange THEN 4
    ELSE IF ~r.neutrinoReconstructed THEN 2
    ELSE IF ~r.neutrinoLikelihoodInRange THEN 3
    ELSE 5

\* TTSemilepRecoRochester::ProcessEvent, lines 241-251
RochesterFailureCode(r) ==
    IF ~r.neutrinoReconstructed THEN 2
    ELSE IF ~r.neutrinoLikelihoodInRange THEN 3
    ELSE IF ~r.massLikelihoodInRange THEN 4
    ELSE 5

\* Variant of RochesterDeclareFailure that keeps the status of the engine
RochesterDeclareFailureNever(res) == res

\* TTSemilepRecoRochester::ProcessEvent, lines 241-251: res is the outcome of
\* PerformJetAssignment
RochesterDeclareFailure(res) ==
    IF GetRank(res.r) = NegInf
    THEN [r |-> SetRecoFailure(res.r, RochesterFailureCode(res.r)),
          calls |-> res.calls, writes |-> res.writes + 1]
    ELSE res

\* TTSemilepRecoRochester::ProcessEvent
RochesterProcessEvent(r, js, ls, nus, metv) ==
    IF Len(ls) = 0
    THEN [r |-> SetRecoFailure([r EXCEPT !.lepton = NullPtr], 1), calls |-> <<>>, writes |-> 1]
    ELSE CHOOSE out \in
            {RochesterDeclareFailure(res) :
                res \in {PerformJetAssignment([r EXCEPT !.lepton = 1, !.neutrino = ZeroP4,
                                                        !.neutrinoReconstructed = FALSE,
                                                        !.neutrinoLikelihoodInRange = FALSE,
                                                        !.massLikelihoodInRange = FALSE,
                                                        !.cachedBTopLep = NullPtr],
                                               "Rochester", js, ls, nus, metv)}} : TRUE

(***************************************************************************)
(* NuRecoRunI::ProcessEvent: the W-mass constraint m(l + nu) = m(W) as a   *)
(* quadratic equation a pz^2 + b pz + c = 0 for the neutrino's pz           *)
(***************************************************************************)
\* m_w, in the units in which the leptons have energy 1
m_w == 2

\* x <= y and x >= y: false when either side is NaN
Le(x, y) == Lt(x, y) \/ Eq(x, y)
Ge(x, y) == Le(y, x)

\* TLorentzVector::M
M(p) ==
    LET m2 == Sub(Sq(p.e), Add(Add(Sq(p.px), Sq(p.py)), Sq(p.pz)))
    IN  IF Lt(m2, 0) THEN Neg(Sqrt(Neg(m2))) ELSE Sqrt(m2)

\* A neutrino candidate of momentum (px, py, pz); pt is its transverse
\* momentum and m the scalar with which it enters the invariant masses
Neutrino(px, py, pz) ==
    [px |-> px, py |-> py, pz |-> pz, pt |-> Sqrt(Add(Sq(px), Sq(py))), m |-> pz]

\* lambda for a neutrino of transverse momentum (px, py)
Lambda(lep, px, py) ==
    Div(Add(Sub(Sq(m_w), Sq(M(lep))),
            Mul(2, Add(Mul(px, lep.px), Mul(py, lep.py)))),
        Mul(2, lep.e))

\* The coefficients of the quadratic equation and its discriminant
QuadA(lep) == Sub(1, Sq(Div(lep.pz, lep.e)))
QuadB(lep, metv) == Mul(Mul(-2, Div(lep.pz, lep.e)), Lambda(lep, metv.px, metv.py))
QuadC(lep, metv) == Sub(Mul(metv.m, metv.m), Sq(Lambda(lep, metv.px, metv.py)))
Discriminant(lep, metv) ==
    Sub(Mul(QuadB(lep, metv), QuadB(lep, metv)),
        Mul(Mul(4, QuadA(lep)), QuadC(lep, metv)))

\* The projections of the lepton on the direction of the MET
GammaX(lep, metv) ==
    LET g == Div(lep.px, Sqrt(Add(1, Sq(Div(metv.py, metv.px)))))
    IN  IF Lt(metv.px, 0) THEN Neg(g) ELSE g
GammaY(lep, metv) ==
    LET g == Div(lep.py, Sqrt(Add(1, Sq(Div(metv.px, metv.py)))))
    IN  IF Lt(metv.py, 0) THEN Neg(g) ELSE g

\* The coefficients of the equation u MET^2 + v MET + w = 0 for the adjusted
\* MET, and its discriminant
MetU(lep, metv) ==
    Sub(Add(Sq(Div(lep.pz, lep.e)),
            Sq(Div(Add(GammaX(lep, metv), GammaY(lep, metv)), lep.e))), 1)
MetV(lep, metv) ==
    Mul(Mul(Sq(Div(1, lep.e)), Add(GammaX(lep, metv), GammaY(lep, metv))),
        Sub(Sq(m_w), Sq(M(lep))))
MetW(lep) == Sq(Div(Sub(Sq(m_w), Sq(M(lep))), Mul(2, lep.e)))
DiscriminantMET(lep, metv) ==
    Sub(Mul(MetV(lep, metv), MetV(lep, metv)), Mul(Mul(4, MetU(lep, metv)), MetW(lep)))

\* The two roots of the equation for the adjusted MET
Met1(lep, metv) ==
    Div(Sub(Neg(MetV(lep, metv)), Sqrt(DiscriminantMET(lep, metv))), Mul(2, MetU(lep, metv)))
Met2(lep, metv) ==
    Div(Add(Neg(MetV(lep, metv)), Sqrt(DiscriminantMET(lep, metv))), Mul(2, MetU(lep, metv)))

\* The choice of the adjusted MET: [giveUp, value]
AdjustedMET(lep, metv) ==
    IF Eq(MetU(lep, metv), 0)
    THEN LET adjustedMET == Div(Neg(MetW(lep)), MetV(lep, metv))
         IN  [giveUp |-> Le(adjustedMET, 0), value |-> adjustedMET]
    ELSE LET met1 == Met1(lep, metv)
             met2 == Met2(lep, metv)
         IN  IF Gt(met1, 0) /\ Gt(met2, 0)
             THEN [giveUp |-> FALSE,
                   value |-> IF Lt(Abs(Sub(metv.m, met1)), Abs(Sub(metv.m, met2)))
                             THEN met1 ELSE met2]
             ELSE IF Gt(met1, 0) THEN [giveUp |-> FALSE, value |-> met1]
             ELSE IF Gt(met2, 0) THEN [giveUp |-> FALSE, value |-> met2]
             ELSE [giveUp |-> TRUE, value |-> 0]

\* Variant of Direction that takes the azimuth to be 0
DirectionAlongX(metv) == IF IsNaN(metv.px) \/ IsNaN(metv.py) THEN <<NaN, NaN>> ELSE <<1, 0>>

\* The unit vector of azimuth TLorentzVector::Phi (0 for a null vector), for a
\* vector along an axis of the transverse plane
Direction(metv) ==
    IF IsNaN(metv.px) \/ IsNaN(metv.py) THEN <<NaN, NaN>>
    ELSE IF metv.px = 0 /\ metv.py = 0 THEN <<1, 0>>
    ELSE <<(IF metv.px > 0 THEN 1 ELSE IF metv.px < 0 THEN -1 ELSE 0),
           (IF metv.py > 0 THEN 1 ELSE IF metv.py < 0 THEN -1 ELSE 0)>>

\* SetPtEtaPhiM(adjustedMET, 0., nuP4.Phi(), 0.), then the double root
\* -bAdjusted / (2 aAdjusted)
AdjustedNeutrino(lep, metv, adjustedMET) ==
    LET px == Mul(adjustedMET, Direction(metv)[1])
        py == Mul(adjustedMET, Direction(metv)[2])
        lambdaAdjusted == Lambda(lep, px, py)
        aAdjusted == Sub(1, Sq(Div(lep.pz, lep.e)))
        bAdjusted == Mul(Mul(-2, Div(lep.pz, lep.e)), lambdaAdjusted)
    IN  Neutrino(px, py, Div(Neg(bAdjusted), Mul(2, aAdjusted)))

\* Variant of SolveNeutrinos that takes the root -b + sqrt(D) twice
SolveNeutrinosSameRoot(lep, metv) ==
    IF Eq(QuadA(lep), 0)
    THEN <<Neutrino(metv.px, metv.py, Div(Neg(QuadC(lep, metv)), QuadB(lep, metv)))>>
    ELSE IF Gt(Discriminant(lep, metv), 0)
    THEN <<Neutrino(metv.px, metv.py,
                    Div(Add(Neg(QuadB(lep, metv)), Sqrt(Discriminant(lep, metv))),
                        Mul(2, QuadA(lep)))),
           Neutrino(metv.px, metv.py,
                    Div(Add(Neg(QuadB(lep, metv)), Sqrt(Discriminant(lep, metv))),
                        Mul(2, QuadA(lep))))>>
    ELSE IF AdjustedMET(lep, metv).giveUp THEN <<>>
    ELSE <<AdjustedNeutrino(lep, metv, AdjustedMET(lep, metv).value)>>

\* The candidates built for a lepton and a MET
SolveNeutrinos(lep, metv) ==
    IF Eq(QuadA(lep), 0)
    THEN <<Neutrino(metv.px, metv.py, Div(Neg(QuadC(lep, metv)), QuadB(lep, metv)))>>
    ELSE IF Gt(Discriminant(lep, metv), 0)
    THEN <<Neutrino(metv.px, metv.py,
                    Div(Sub(Neg(QuadB(lep, metv)), Sqrt(Discriminant(lep, metv))),
                        Mul(2, QuadA(lep)))),
           Neutrino(metv.px, metv.py,
                    Div(Add(Neg(QuadB(lep, metv)), Sqrt(Discriminant(lep, metv))),
                        Mul(2, QuadA(lep))))>>
    ELSE IF AdjustedMET(lep, metv).giveUp THEN <<>>
    ELSE <<AdjustedNeutrino(lep, metv, AdjustedMET(lep, metv).value)>>

\* Whether every assert met on the way holds
AssertionsHold(lep, metv) ==
    IF Eq(QuadA(lep), 0) THEN ~Eq(QuadB(lep, metv), 0)
    ELSE IF Gt(Discriminant(lep, metv), 0) THEN TRUE
    ELSE /\ Ge(DiscriminantMET(lep, metv), 0)
         /\ Eq(MetU(lep, metv), 0) => ~Eq(MetV(lep, metv), 0)

\* The object after the call that returns
NuRecoRunIProcessEvent(n, ls, metv) ==
    IF Len(ls) = 0 THEN n
    ELSE [n EXCEPT !.neutrinos = SolveNeutrinos(ls[1], metv)]

(***************************************************************************)
(* Accessors of the reconstruction plugin and TTObservables::ProcessEvent  *)
(***************************************************************************)
DecayJets == {"bTopLep", "bTopHad", "q1TopHad", "q2TopHad"}

\* The roles in the order of the arguments of ComputeRank
DecayJetOrder == <<"bTopLep", "bTopHad", "q1TopHad", "q2TopHad">>

\* An accessor returns [throws, v]: whether it raises std::runtime_error, and
\* otherwise the object it returns (v is meaningful only when throws is FALSE)

\* TTSemilepRecoBase::GetJet
GetJet(r, type) ==
    LET jet == CASE type = "bTopLep" -> r.bTopLep
                 [] type = "bTopHad" -> r.bTopHad
                 [] type = "q1TopHad" -> r.q1TopHad
                 [] type = "q2TopHad" -> r.q2TopHad
    IN  [throws |-> jet = NullPtr, v |-> jet]

\* TTSemilepRecoChi2::GetLepton
Chi2GetLepton(ls) == [throws |-> Len(ls) = 0, v |-> 1]

\* TTSemilepRecoRochester::GetLepton
RochesterGetLepton(r) == [throws |-> r.lepton = NullPtr, v |-> r.lepton]

\* TTSemilepRecoChi2::GetNeutrino
Chi2GetNeutrino(r) == [throws |-> r.bestNu = NullPtr, v |-> r.bestNu]

\* TTSemilepRecoRochester::GetNeutrino
RochesterGetNeutrino(r) == [throws |-> FALSE, v |-> r.neutrino]

GetLeptonThrows(r, strategy, ls) ==
    IF strategy = "Chi2" THEN Chi2GetLepton(ls).throws ELSE RochesterGetLepton(r).throws

GetNeutrinoThrows(r, strategy) ==
    IF strategy = "Chi2" THEN Chi2GetNeutrino(r).throws ELSE RochesterGetNeutrino(r).throws

\* TTSemilepRecoBase::GetTopLepP4 and GetTopHadP4: whether they raise
GetTopLepP4Throws(r, strategy, ls) ==
    \/ GetLeptonThrows(r, strategy, ls)
    \/ GetNeutrinoThrows(r, strategy)
    \/ GetJet(r, "bTopLep").throws

GetTopHadP4Throws(r) ==
    \/ GetJet(r, "bTopHad").throws
    \/ GetJet(r, "q1TopHad").throws
    \/ GetJet(r, "q2TopHad").throws

\* TTObservables::ProcessEvent: "filled", "dummy", or "error" when an accessor raises
TTObservablesOutcome(r, strategy, ls) ==
    IF GetRecoStatus(r) = 0
    THEN IF \/ GetTopLepP4Throws(r, strategy, ls)
            \/ GetTopHadP4Throws(r)
            \/ GetJet(r, "q1TopHad").throws
            \/ GetJet(r, "q2TopHad").throws
         THEN "error"
         ELSE "filled"
    ELSE "dummy"

(***************************************************************************)
(* State machine                                                           *)
(***************************************************************************)
\* Values an uninitialised member may hold: all bits zero, or something else
Uninitialised == {0, 1}

\* The reconstruction plugin after construction.  The constructors initialise
\* only minPt and maxAbsEta (and leave the vectors empty); every other member
\* is uninitialised until an event is processed.
Constructed(g) ==
    [minPt |-> 0, maxAbsEta |-> Inf, selectedJetIndices |-> <<>>,
     recoStatus |-> g, highestRank |-> g,
     bTopLep |-> g, bTopHad |-> g, q1TopHad |-> g, q2TopHad |-> g,
     chi2Terms |-> <<>>, minChi2 |-> g, bestNu |-> g,
     likelihoodSet |-> FALSE,
     lepton |-> g, neutrino |-> ZeroP4,
     neutrinoReconstructed |-> (g # 0), neutrinoLikelihoodInRange |-> (g # 0),
     massLikelihoodInRange |-> (g # 0),
     cachedBTopLep |-> g, cachedP4Nu |-> ZeroP4, cachedLogLikelihoodNu |-> g]

Init ==
    /\ pc = "setup"
    /\ plugin \in {"Chi2", "Rochester"}
    /\ nEvents = 0
    /\ jets = <<>>
    /\ leptons = <<>>
    /\ met = Met(0, 0)
    /\ nuReco = [neutrinos |-> <<>>]
    /\ \E g \in Uninitialised : ttReco = Constructed(g)
    /\ calls = <<>>
    /\ nWrites = 0
    /\ obs = "none"

\* Cuts given to SetJetSelection and terms given to AddChi2Term during setup
MinPtCut == 2
MaxAbsEtaCut == 0
TermChoices ==
    {[expression |-> "MassTopLep", mean |-> 1, variance |-> 1],
     [expression |-> "MassTopLep", mean |-> 3, variance |-> 1],
     [expression |-> "MassWHad", mean |-> 1, variance |-> 1],
     [expression |-> "MassWHad", mean |-> 1, variance |-> 0]}

\* TTSemilepRecoBase::SetJetSelection
SetJetSelection ==
    /\ pc = "setup"
    /\ ttReco' = [ttReco EXCEPT !.minPt = MinPtCut, !.maxAbsEta = MaxAbsEtaCut]
    /\ UNCHANGED <<pc, plugin, nEvents, jets, leptons, met, nuReco, calls, nWrites, obs>>

\* TTSemilepRecoChi2::AddChi2Term
AddChi2Term ==
    /\ pc = "setup"
    /\ plugin = "Chi2"
    /\ Len(ttReco.chi2Terms) < MaxTerms
    /\ \E term \in TermChoices : ttReco' = [ttReco EXCEPT !.chi2Terms = Append(@, term)]
    /\ UNCHANGED <<pc, plugin, nEvents, jets, leptons, met, nuReco, calls, nWrites, obs>>

\* TTSemilepRecoRochester::SetLikelihood
SetLikelihood ==
    /\ pc = "setup"
    /\ plugin = "Rochester"
    /\ ttReco' = [ttReco EXCEPT !.likelihoodSet = TRUE]
    /\ UNCHANGED <<pc, plugin, nEvents, jets, leptons, met, nuReco, calls, nWrites, obs>>

\* BeginRun of the plugins; TTSemilepRecoRochester::BeginRun throws when no
\* likelihood histograms have been provided
BeginRun ==
    /\ pc = "setup"
    /\ pc' = IF plugin = "Rochester" /\ ~ttReco.likelihoodSet THEN "crashed" ELSE "read"
    /\ UNCHANGED <<plugin, nEvents, jets, leptons, met, nuReco, ttReco, calls, nWrites, obs>>

\* The readers load the next event.  Jets are ordered in pt.
ReadEvent ==
    /\ pc = "read"
    /\ nEvents < MaxEvents
    /\ nEvents' = nEvents + 1
    /\ \E n \in 0..MaxJets : \E js \in [1..n -> Jet] : PtOrdered(js) /\ jets' = js
    /\ \E ls \in {<<>>} \cup {<<l>> : l \in LeptonKinds} : leptons' = ls
    /\ met' \in MetKinds
    /\ pc' = IF plugin = "Chi2" THEN "nuReco" ELSE "ttReco"
    /\ calls' = <<>>
    /\ nWrites' = 0
    /\ obs' = "none"
    /\ UNCHANGED <<plugin, nuReco, ttReco>>

\* NuRecoRunI::ProcessEvent
NuRecoProcessEvent ==
    /\ pc = "nuReco"
    /\ \/ /\ nuReco' = NuRecoRunIProcessEvent(nuReco, leptons, met)
          /\ pc' = "ttReco"
       \/ \* a failed assert of a build without NDEBUG aborts the program
          /\ Len(leptons) > 0 /\ ~AssertionsHold(leptons[1], met)
          /\ nuReco' = [nuReco EXCEPT !.neutrinos = <<>>]
          /\ pc' = "crashed"
    /\ UNCHANGED <<plugin, nEvents, jets, leptons, met, ttReco, calls, nWrites, obs>>

\* ProcessEvent of the reconstruction plugin
TTRecoProcessEvent ==
    /\ pc = "ttReco"
    /\ \E res \in {IF plugin = "Chi2"
                    THEN Chi2ProcessEvent(ttReco, jets, leptons, nuReco.neutrinos, met)
                    ELSE RochesterProcessEvent(ttReco, jets, leptons, nuReco.neutrinos, met)} :
          /\ ttReco' = res.r
          /\ calls' = res.calls
          /\ nWrites' = res.writes
    /\ pc' = "ttObs"
    /\ UNCHANGED <<plugin, nEvents, jets, leptons, met, nuReco, obs>>

\* TTObservables::ProcessEvent
TTObservablesProcessEvent ==
    /\ pc = "ttObs"
    /\ obs' = TTObservablesOutcome(ttReco, plugin, leptons)
    /\ pc' = IF obs' = "error" THEN "crashed" ELSE "read"
    /\ UNCHANGED <<plugin, nEvents, jets, leptons, met, nuReco, ttReco, calls, nWrites>>

Next ==
    \/ SetJetSelection
    \/ AddChi2Term
    \/ SetLikelihood
    \/ BeginRun
    \/ ReadEvent
    \/ NuRecoProcessEvent
    \/ TTRecoProcessEvent
    \/ TTObservablesProcessEvent

Spec == Init /\ [][Next]_vars

(***************************************************************************)
(* Jet selection: one event of the likelihood plugin, read after a setup   *)
(* in which SetJetSelection is given any cuts, with jets of several pt and *)
(* eta in any order (PerformJetAssignment takes any vector of jets).       *)
(***************************************************************************)
SelMaxPt == 2      \* jet pt takes values 1..SelMaxPt
SelMaxEta == 1     \* jet |eta| takes values 0..SelMaxEta
SelMaxEvents == 1  \* events per run
SelMaxJets == 5    \* jets per event

SelLepton == Lepton(1, 0, 0, 0)
\* Jets whose mass scalar grows with their pt
SelJet == {[pt |-> p, eta |-> e, m |-> p - 1] : p \in 1..SelMaxPt, e \in 0..SelMaxEta}

SelectionInit ==
    /\ pc = "setup"
    /\ plugin = "Rochester"
    /\ nEvents = 0
    /\ jets = <<>>
    /\ leptons = <<>>
    /\ met = Met(0, 0)
    /\ nuReco = [neutrinos |-> <<>>]
    /\ \E g \in Uninitialised : ttReco = Constructed(g)
    /\ calls = <<>>
    /\ nWrites = 0
    /\ obs = "none"

\* TTSemilepRecoBase::SetJetSelection with any cuts
SelectionSetJetSelection ==
    /\ pc = "setup"
    /\ \E minPt \in 1..SelMaxPt : \E maxAbsEta \in 0..SelMaxEta :
          ttReco' = [ttReco EXCEPT !.minPt = minPt, !.maxAbsEta = maxAbsEta]
    /\ UNCHANGED <<pc, plugin, nEvents, jets, leptons, met, nuReco, calls, nWrites, obs>>

\* The readers load an event with a lepton and jets in any order
SelectionReadEvent ==
    /\ pc = "read"
    /\ nEvents < SelMaxEvents
    /\ nEvents' = nEvents + 1
    /\ \E n \in 0..SelMaxJets : jets' \in [1..n -> SelJet]
    /\ leptons' = <<SelLepton>>
    /\ pc' = "ttReco"
    /\ calls' = <<>>
    /\ nWrites' = 0
    /\ obs' = "none"
    /\ UNCHANGED <<plugin, met, nuReco, ttReco>>

SelectionNext ==
    \/ SelectionSetJetSelection
    \/ SetLikelihood
    \/ BeginRun
    \/ SelectionReadEvent
    \/ TTRecoProcessEvent
    \/ TTObservablesProcessEvent

SelectionSpec == SelectionInit /\ [][SelectionNext]_vars

(***************************************************************************)
(* Neutrino reconstruction: a pipeline of the readers and NuRecoRunI, with *)
(* massless leptons of energy 1 along the six axis directions and a MET    *)
(* along the axes of the transverse plane.                                 *)
(***************************************************************************)
NuMaxMet == 3      \* the MET has magnitude 0..NuMaxMet
NuMaxEvents == 2   \* events per run

NuLeptons ==
    {Lepton(1, 0, 0, 0), Lepton(-1, 0, 0, 0), Lepton(0, 1, 0, 0), Lepton(0, -1, 0, 0),
     Lepton(0, 0, 1, 0), Lepton(0, 0, -1, 0)}
NuMets ==
    {Met(x, 0) : x \in -NuMaxMet..NuMaxMet} \cup {Met(0, y) : y \in -NuMaxMet..NuMaxMet}
        \cup {Met(NaN, NaN)}

NuRecoInit ==
    /\ pc = "read"
    /\ plugin = "Chi2"
    /\ nEvents = 0
    /\ jets = <<>>
    /\ leptons = <<>>
    /\ met = Met(0, 0)
    /\ nuReco = [neutrinos |-> <<>>]
    /\ ttReco = Constructed(0)
    /\ calls = <<>>
    /\ nWrites = 0
    /\ obs = "none"

\* The readers load the leptons and the MET of the next event
NuRecoReadEvent ==
    /\ pc \in {"read", "ttReco"}
    /\ nEvents < NuMaxEvents
    /\ nEvents' = nEvents + 1
    /\ \E ls \in {<<>>} \cup {<<l>> : l \in NuLeptons} : leptons' = ls
    /\ met' \in NuMets
    /\ pc' = "nuReco"
    /\ UNCHANGED <<plugin, jets, nuReco, ttReco, calls, nWrites, obs>>

NuRecoNext == NuRecoReadEvent \/ NuRecoProcessEvent

NuRecoSpec == NuRecoInit /\ [][NuRecoNext]_vars

(***************************************************************************)
(* Properties                                                              *)
(***************************************************************************)
\* The reconstruction plugin has processed the current event
Processed == pc = "ttObs" \/ obs # "none"

\* The precondition of the reconstruction plugin holds for the current event:
\* a lepton and, for the chi-squared plugin, a neutrino candidate
HasLeptonAndNeutrino ==
    Len(leptons) > 0 /\ (plugin = "Chi2" => Len(nuReco.neutrinos) > 0)

\* PerformJetAssignment has been called for the current event
EngineRan == Processed /\ HasLeptonAndNeutrino

\* Number of jets of the current event that pass the selection
NSelected == Len(SelectJets(jets, ttReco.minPt, ttReco.maxAbsEta, 1, <<>>))

\* GetJet raises for every role / returns a jet for every role
AllJetsUnset == \A type \in DecayJets : GetJet(ttReco, type).throws
AllJetsSet == \A type \in DecayJets : ~GetJet(ttReco, type).throws

\* Some invocation of ComputeRank for the current event returned more than -infinity
SomeRankAboveNegInf == \E k \in 1..Len(calls) : Gt(calls[k].rank, NegInf)

\* N (N-1) (N-2) (N-3) / 2, and zero when N < 4
AssignmentCount(n) == IF n < 4 THEN 0 ELSE (n * (n - 1) * (n - 2) * (n - 3)) \div 2

\* C1: one call of PerformJetAssignment with N selected jets invokes
\* ComputeRank exactly N(N-1)(N-2)(N-3)/2 times when N >= 4 and never when
\* N < 4.
C1_InvocationCount == EngineRan => Len(calls) = AssignmentCount(NSelected)

\* An event with four selected jets for which ComputeRank was invoked 36 times
C1_ThirtySixCalls == EngineRan /\ NSelected = 4 /\ Len(calls) = 36

\* C2: every tuple passed to ComputeRank consists of four pairwise distinct
\* selected jets: iLepB # iHadB, iQ1 not in {iLepB, iHadB}, iQ2 > iQ1 and iQ2
\* not in {iLepB, iHadB}; so the jets of the accepted assignment are distinct.
C2_DistinctJets ==
    /\ \A k \in 1..Len(calls) :
          LET t == calls[k].ii
          IN  /\ t[1] # t[2]
              /\ t[3] \notin {t[1], t[2]}
              /\ t[4] > t[3]
              /\ t[4] \notin {t[1], t[2]}
    /\ (EngineRan /\ AllJetsSet) =>
          Cardinality({GetJet(ttReco, type).v : type \in DecayJets}) = 4

\* An accepted assignment in which q2TopHad is the same jet as a b-jet
C2_JetUsedTwice ==
    /\ EngineRan
    /\ GetRecoStatus(ttReco) = 0
    /\ AllJetsSet
    /\ GetJet(ttReco, "q2TopHad").v \in {GetJet(ttReco, "bTopLep").v, GetJet(ttReco, "bTopHad").v}

C4_InsufficientJets ==
    (EngineRan /\ NSelected < 4) =>
        /\ GetRecoStatus(ttReco) = InsufficientJets
        /\ calls = <<>>
        /\ AllJetsUnset

\* The likelihood plugin reports another status for an event with too few jets
C4_StatusOverwritten ==
    /\ EngineRan
    /\ NSelected < 4
    /\ plugin = "Rochester"
    /\ calls = <<>>
    /\ GetRecoStatus(ttReco) = 2

\* C5: after any processed event, with either plugin and any ranks, status
\* Success implies that the best rank is above -infinity, that GetJet returns
\* for every role, and that TTObservables::ProcessEvent ends without an error.
C5_SuccessSufficient ==
    (Processed /\ GetRecoStatus(ttReco) = 0) =>
        /\ Gt(GetRank(ttReco), NegInf)
        /\ AllJetsSet
        /\ obs # "error"

\* Status Success after an event all of whose interpretations were ranked
\* -infinity: no jet is set and TTObservables::ProcessEvent fails
C5_SuccessWithoutAssignment ==
    /\ EngineRan
    /\ Len(calls) > 0
    /\ ~SomeRankAboveNegInf
    /\ GetRecoStatus(ttReco) = 0
    /\ AllJetsUnset
    /\ obs = "error"

\* C6: after any sequence of events, if the status of the current event is
\* not Success (whatever the reason), GetJet raises for every role.
C6_SuccessNecessary ==
    (Processed /\ GetRecoStatus(ttReco) # 0) => AllJetsUnset

\* A second event without lepton, after an event in which a selection of jets
\* was made: the status is a failure and GetJet returns a jet for every role
C6_StaleJets ==
    /\ Processed
    /\ nEvents = 2
    /\ Len(leptons) = 0
    /\ Len(ttReco.selectedJetIndices) >= 4
    /\ GetRecoStatus(ttReco) # 0
    /\ AllJetsSet

\* C7: after any sequence of events, whenever the reconstruction of the
\* current event has failed (status is not Success, for any reason), GetRank
\* returns -infinity and not a value of an earlier event.
C7_RankReset ==
    (Processed /\ GetRecoStatus(ttReco) # 0) => GetRank(ttReco) = NegInf

\* A second event without lepton whose GetRank is above -infinity
C7_StaleRank ==
    /\ Processed
    /\ nEvents = 2
    /\ Len(leptons) = 0
    /\ Len(ttReco.selectedJetIndices) >= 4
    /\ GetRecoStatus(ttReco) # 0
    /\ Gt(GetRank(ttReco), NegInf)

\* C8: an event without lepton (likelihood plugin), or without lepton or
\* without neutrino candidate (chi-squared plugin), ends with a failure status
\* and with no invocation of ComputeRank.
C8_PreconditionShortCircuit ==
    (Processed /\ ~HasLeptonAndNeutrino) =>
        /\ GetRecoStatus(ttReco) # 0
        /\ calls = <<>>

\* A chi-squared event with a lepton and four selected jets but no neutrino
\* candidate, processed with a failure status
C8_NoNeutrinoCandidate ==
    /\ Processed
    /\ plugin = "Chi2"
    /\ Len(leptons) > 0
    /\ Len(nuReco.neutrinos) = 0
    /\ NSelected >= 4
    /\ GetRecoStatus(ttReco) # 0
    /\ calls = <<>>

\* C9: an event without lepton (or, for chi-squared, without neutrino
\* candidate) ends with a status distinct from InsufficientJets, so that a
\* reader of GetRecoStatus can tell the two failures apart.
C9_DistinctStatus ==
    (Processed /\ ~HasLeptonAndNeutrino) => GetRecoStatus(ttReco) # InsufficientJets

\* An event without lepton and with four selected jets reported with the
\* status of InsufficientJets
C9_SameStatus ==
    /\ Processed
    /\ Len(leptons) = 0
    /\ NSelected >= 4
    /\ GetRecoStatus(ttReco) = InsufficientJets

\* C10: when PerformJetAssignment ends with some tuple ranked above
\* -infinity, GetRank is the maximum of the ranks ComputeRank returned for the
\* tuples of this event, and the four stored jets are those of a tuple whose
\* rank is that maximum.
C10_BestRank ==
    (EngineRan /\ SomeRankAboveNegInf) =>
        /\ \A k \in 1..Len(calls) : ~Gt(calls[k].rank, GetRank(ttReco))
        /\ \E k \in 1..Len(calls) :
              /\ calls[k].rank = GetRank(ttReco)
              /\ \A i \in 1..4 : ~GetJet(ttReco, DecayJetOrder[i]).throws
                                 /\ GetJet(ttReco, DecayJetOrder[i]).v = calls[k].jets[i]

\* An event whose tuples got at least two different ranks above -infinity,
\* the best of them not returned by the first invocation
C10_SeveralRanks ==
    /\ EngineRan
    /\ \E j, k \in 1..Len(calls) :
          /\ Gt(calls[j].rank, NegInf)
          /\ Gt(calls[k].rank, calls[j].rank)
    /\ Gt(GetRank(ttReco), calls[1].rank)
    /\ AllJetsSet

\* t comes before u in the order of the nested loops: bTopLep outermost, then
\* bTopHad, then q1TopHad, then q2TopHad innermost
LoopOrderBefore(t, u) ==
    \E i \in 1..4 : t[i] < u[i] /\ \A j \in 1..(i - 1) : t[j] = u[j]

\* The jets stored by the engine are those of the invocation k of ComputeRank
StoredJetsAre(k) ==
    \A i \in 1..4 : ~GetJet(ttReco, DecayJetOrder[i]).throws
                     /\ GetJet(ttReco, DecayJetOrder[i]).v = calls[k].jets[i]

\* C11: the tuples are ranked in the order of the nested loops (bTopLep
\* outermost, q2TopHad innermost), and when several tuples obtain the maximal
\* rank the stored assignment is the one of them that was enumerated first.
C11_TieBreak ==
    (EngineRan /\ SomeRankAboveNegInf) =>
        /\ \A j, k \in 1..Len(calls) : j < k => LoopOrderBefore(calls[j].ii, calls[k].ii)
        /\ \E k \in 1..Len(calls) :
              /\ calls[k].rank = GetRank(ttReco)
              /\ \A j \in 1..(k - 1) : calls[j].rank # GetRank(ttReco)
              /\ StoredJetsAre(k)

\* Two tuples of different jets share the maximal rank; the first one is stored
C11_TiedMaximum ==
    /\ EngineRan
    /\ Gt(GetRank(ttReco), NegInf)
    /\ \E j, k \in 1..Len(calls) :
          /\ j < k
          /\ calls[j].rank = GetRank(ttReco)
          /\ calls[k].rank = GetRank(ttReco)
          /\ calls[j].jets # calls[k].jets
          /\ \A i \in 1..(j - 1) : calls[i].rank # GetRank(ttReco)
          /\ StoredJetsAre(j)

\* The jet at position i of the current event passes both cuts
PassesSelection(i) ==
    Abs(jets[i].eta) <= ttReco.maxAbsEta /\ jets[i].pt >= ttReco.minPt

\* The positions stored in selectedJetIndices
SelectedSet ==
    {ttReco.selectedJetIndices[k] : k \in 1..Len(ttReco.selectedJetIndices)}

\* C12: for every jet collection ordered by non-increasing pt, the positions
\* selected by PerformJetAssignment are exactly those of the jets with
\* |eta| <= maxAbsEta and pt >= minPt, each stored once, in increasing order.
C12_SelectionExact ==
    (EngineRan /\ PtOrdered(jets)) =>
        /\ SelectedSet = {i \in 1..Len(jets) : PassesSelection(i)}
        /\ \A j, k \in 1..Len(ttReco.selectedJetIndices) :
              j < k => ttReco.selectedJetIndices[j] < ttReco.selectedJetIndices[k]

\* A pt-ordered event in which a jet outside the eta range comes before a
\* selected jet and a jet below the pt threshold ends the scan
C12_SkipThenStop ==
    /\ EngineRan
    /\ PtOrdered(jets)
    /\ \E i, j, k \in 1..Len(jets) :
          /\ i < j /\ j < k
          /\ Abs(jets[i].eta) > ttReco.maxAbsEta
          /\ j \in SelectedSet
          /\ jets[k].pt < ttReco.minPt
          /\ Abs(jets[k].eta) <= ttReco.maxAbsEta

\* What happened in the invocation k of the likelihood ComputeRank, derived
\* from its arguments: the neutrino was reconstructed; its distance fell
\* inside the 1-D table; the mass pair was looked up and fell inside the 2-D
\* table
NuReconstructedIn(k) == IsReconstructable(leptons[1], jets[calls[k].jets[1]])

NuInRangeIn(k) ==
    /\ NuReconstructedIn(k)
    /\ ~IsBinOverflow1(FindAxisBin(Sqrt(GetBest(leptons[1], jets[calls[k].jets[1]], met).test),
                                   Len(likelihoodNeutrino)))

MassInRangeIn(k) ==
    /\ NuInRangeIn(k)
    /\ ~IsBinOverflow2(<<FindAxisBin(jets[calls[k].jets[3]].m + jets[calls[k].jets[4]].m,
                                     Len(likelihoodMass)),
                         FindAxisBin(jets[calls[k].jets[3]].m + jets[calls[k].jets[4]].m
                                        + jets[calls[k].jets[2]].m,
                                     Len(likelihoodMass[1]))>>)

\* The failure diagnosed from what happened in the invocations of the event
DiagnosedFailure ==
    IF ~\E k \in 1..Len(calls) : NuReconstructedIn(k) THEN 2
    ELSE IF ~\E k \in 1..Len(calls) : NuInRangeIn(k) THEN 3
    ELSE IF ~\E k \in 1..Len(calls) : MassInRangeIn(k) THEN 4
    ELSE 5

\* C13: in the likelihood plugin, an event with a lepton that ends with best
\* rank -infinity gets status 2 if no neutrino was reconstructed for any
\* tuple, else 3 if no neutrino distance fell inside the 1-D table, else 4 if
\* no mass pair fell inside the 2-D table, else 5.
C13_FailurePriority ==
    (EngineRan /\ plugin = "Rochester" /\ GetRank(ttReco) = NegInf) =>
        GetRecoStatus(ttReco) = DiagnosedFailure

\* An event of the likelihood plugin with status 4: for some tuples the
\* neutrino was not reconstructed, for the others it was in range and the mass
\* pair was not
C13_MassOutOfRange ==
    /\ EngineRan
    /\ plugin = "Rochester"
    /\ GetRank(ttReco) = NegInf
    /\ \E k \in 1..Len(calls) : ~NuReconstructedIn(k)
    /\ \E k \in 1..Len(calls) : NuInRangeIn(k)
    /\ GetRecoStatus(ttReco) = 4

\* The invocations of the current event that used the ellipse solver, and
\* those at which the leptonic-b jet differs from the previous invocation
SolverInvocations == {k \in 1..Len(calls) : calls[k].solver # "none"}
BTopLepChanges == {k \in 1..Len(calls) : k = 1 \/ calls[k].jets[1] # calls[k - 1].jets[1]}

\* C14: in the likelihood plugin, an invocation of ComputeRank with the same
\* leptonic-b jet as the previous invocation, which reconstructed an in-range
\* neutrino, does not use the ellipse solver; so when every neutrino is in
\* range the solver is used at most once per change of the leptonic-b jet.
C14_CacheReuse ==
    (EngineRan /\ plugin = "Rochester") =>
        /\ \A k \in 2..Len(calls) :
              (calls[k].jets[1] = calls[k - 1].jets[1] /\ NuInRangeIn(k - 1)) =>
                  calls[k].solver = "none"
        /\ (\A k \in 1..Len(calls) : NuInRangeIn(k)) =>
              Cardinality(SolverInvocations) <= Cardinality(BTopLepChanges)

\* An event in which every neutrino is in range and the solver is used for
\* every tuple, also when the leptonic-b jet is the one of the previous tuple
C14_SolverForEveryTuple ==
    /\ EngineRan
    /\ plugin = "Rochester"
    /\ Len(calls) > 1
    /\ \A k \in 1..Len(calls) : NuInRangeIn(k) /\ calls[k].solver = "best"
    /\ Cardinality(BTopLepChanges) < Len(calls)

\* The neutrino reconstructed anew for the leptonic-b jet of the invocation k
\* and the logarithm of its likelihood
RecomputedNeutrino(k) == GetBest(leptons[1], jets[calls[k].jets[1]], met)

RecomputedLogLikelihoodNu(k) ==
    Log(likelihoodNeutrino[FindAxisBin(Sqrt(RecomputedNeutrino(k).test),
                                       Len(likelihoodNeutrino))])

\* The log-likelihood of the tuple of the invocation k when the neutrino is
\* reconstructed anew
RecomputedRank(k) ==
    IF ~MassInRangeIn(k) THEN NegInf
    ELSE Add(RecomputedLogLikelihoodNu(k),
             Log(likelihoodMass[FindAxisBin(jets[calls[k].jets[3]].m + jets[calls[k].jets[4]].m,
                                            Len(likelihoodMass))]
                               [FindAxisBin(jets[calls[k].jets[3]].m + jets[calls[k].jets[4]].m
                                               + jets[calls[k].jets[2]].m,
                                            Len(likelihoodMass[1]))]))

\* The invocation k is the first one whose recomputed rank is the highest
RecomputedBest(k) ==
    /\ \A j \in 1..Len(calls) : ~Gt(RecomputedRank(j), RecomputedRank(k))
    /\ \A j \in 1..(k - 1) : RecomputedRank(j) # RecomputedRank(k)

\* C15: in the likelihood plugin the run with the cache gives what a run that
\* reconstructs the neutrino anew for every tuple gives: the same
\* log-likelihood for every tuple, the same final status, the same winning
\* jets and the same reconstructed neutrino.
C15_CacheTransparent ==
    (EngineRan /\ plugin = "Rochester") =>
        /\ \A k \in 1..Len(calls) : calls[k].rank = RecomputedRank(k)
        /\ IF \E k \in 1..Len(calls) : Gt(RecomputedRank(k), NegInf)
           THEN /\ GetRecoStatus(ttReco) = 0
                /\ \E k \in 1..Len(calls) :
                      /\ RecomputedBest(k)
                      /\ StoredJetsAre(k)
                      /\ RochesterGetNeutrino(ttReco).v = RecomputedNeutrino(k).p4
           ELSE /\ GetRecoStatus(ttReco) = DiagnosedFailure
                /\ AllJetsUnset
                /\ RochesterGetNeutrino(ttReco).v = ZeroP4

\* A successful event of the likelihood plugin in which consecutive tuples
\* with the same leptonic-b jet got different ranks above -infinity
C15_SameBTopLepRanked ==
    /\ EngineRan
    /\ plugin = "Rochester"
    /\ GetRecoStatus(ttReco) = 0
    /\ \E k \in 2..Len(calls) :
          /\ calls[k].jets[1] = calls[k - 1].jets[1]
          /\ Gt(calls[k - 1].rank, NegInf)
          /\ Gt(calls[k].rank, calls[k - 1].rank)

\* The invocations whose rank was higher than every rank returned before
NewBestAt ==
    {k \in 1..Len(calls) :
        Gt(calls[k].rank, NegInf) /\ \A j \in 1..(k - 1) : Gt(calls[k].rank, calls[j].rank)}

\* The last of them
LastNewBest == CHOOSE k \in NewBestAt : \A j \in NewBestAt : j <= k

\* C16: in the likelihood plugin the neutrino holder, zeroed at the start of
\* the event, is overwritten exactly when ComputeRank finds a log-likelihood
\* strictly greater than the best rank so far, so it holds the neutrino of the
\* last such tuple; after an event with status Success GetNeutrino returns the
\* neutrino reconstructed from the lepton and the bTopLep jet of the accepted
\* assignment.
C16_NeutrinoOfBest ==
    (EngineRan /\ plugin = "Rochester") =>
        /\ RochesterGetNeutrino(ttReco).v =
              IF NewBestAt = {} THEN ZeroP4
              ELSE GetBest(leptons[1], jets[calls[LastNewBest].jets[1]], met).p4
        /\ GetRecoStatus(ttReco) = 0 =>
              /\ ~GetJet(ttReco, "bTopLep").throws
              /\ RochesterGetNeutrino(ttReco).v =
                    GetBest(leptons[1], jets[GetJet(ttReco, "bTopLep").v], met).p4

\* A successful event in which the neutrino holder was overwritten for two
\* leptonic-b jets of different kinematics
C16_OverwrittenTwice ==
    /\ EngineRan
    /\ plugin = "Rochester"
    /\ GetRecoStatus(ttReco) = 0
    /\ \E j \in NewBestAt :
          /\ j < LastNewBest
          /\ jets[calls[j].jets[1]] # jets[calls[LastNewBest].jets[1]]
    /\ RochesterGetNeutrino(ttReco).v.bjet = jets[calls[LastNewBest].jets[1]]

\* C17: after any sequence of events, TTSemilepRecoRochester::GetNeutrino
\* raises when the reconstruction of the current event has failed.
C17_GetNeutrinoRaises ==
    (Processed /\ plugin = "Rochester" /\ GetRecoStatus(ttReco) # 0) =>
        RochesterGetNeutrino(ttReco).throws

\* A second event, without lepton, after which GetNeutrino returns the
\* neutrino reconstructed in the first event
C17_StaleNeutrinoReturned ==
    /\ Processed
    /\ plugin = "Rochester"
    /\ nEvents = 2
    /\ Len(leptons) = 0
    /\ GetRecoStatus(ttReco) # 0
    /\ ~RochesterGetNeutrino(ttReco).throws
    /\ RochesterGetNeutrino(ttReco).v.kind = "solved"

\* C18: after any sequence of events, TTSemilepRecoChi2::GetNeutrino raises
\* whenever the current event has no neutrino candidate or its jet assignment
\* was aborted (no lepton, no neutrino candidate, fewer than four selected
\* jets).
C18_Chi2GetNeutrinoRaises ==
    (Processed /\ plugin = "Chi2"
        /\ (Len(leptons) = 0 \/ Len(nuReco.neutrinos) = 0 \/ NSelected < 4)) =>
        Chi2GetNeutrino(ttReco).throws

\* A second event without lepton, after an event whose jets were assigned and
\* whose neutrino candidates are still in the collection: GetNeutrino raises
C18_RaisesAfterSuccess ==
    /\ Processed
    /\ plugin = "Chi2"
    /\ nEvents = 2
    /\ Len(leptons) = 0
    /\ Len(nuReco.neutrinos) > 0
    /\ AllJetsSet
    /\ Chi2GetNeutrino(ttReco).throws

\* The chi-squared of the tuple of the invocation k with the neutrino
\* candidate n of the current event
Chi2OfCall(k, n) ==
    Chi2Of(ttReco.chi2Terms, leptons[1], nuReco.neutrinos[n], jets[calls[k].jets[1]],
           jets[calls[k].jets[2]], jets[calls[k].jets[3]], jets[calls[k].jets[4]])

\* The least of the chi-squared values of the invocation k
MinChi2OfCall(k) ==
    CHOOSE x \in {Chi2OfCall(k, n) : n \in 1..Len(nuReco.neutrinos)} :
        \A n \in 1..Len(nuReco.neutrinos) : x <= Chi2OfCall(k, n)

\* C19: the chi-squared rank of a tuple is minus the minimum, over the
\* neutrino candidates of the event, of the sum over the configured terms of
\* ((observable - mean) / variance)^2, wherever these sums have a value; the
\* rank is never positive.
C19_RankIsMinusMinChi2 ==
    (EngineRan /\ plugin = "Chi2") =>
        \A k \in 1..Len(calls) :
            /\ (\A n \in 1..Len(nuReco.neutrinos) : ~IsNaN(Chi2OfCall(k, n))) =>
                  calls[k].rank = Neg(MinChi2OfCall(k))
            /\ ~Gt(calls[k].rank, 0)

\* A tuple whose chi-squared differs between two neutrino candidates, the
\* second one giving the smaller value, which is the rank
C19_SecondCandidateLower ==
    /\ EngineRan
    /\ plugin = "Chi2"
    /\ Len(nuReco.neutrinos) = 2
    /\ \E k \in 1..Len(calls) :
          /\ Lt(Chi2OfCall(k, 2), Chi2OfCall(k, 1))
          /\ Gt(Chi2OfCall(k, 2), 0)
          /\ calls[k].rank = Neg(Chi2OfCall(k, 2))

\* The chi-squared of the accepted tuple with the neutrino of GetNeutrino
Chi2OfAccepted ==
    Chi2Of(ttReco.chi2Terms, leptons[1], nuReco.neutrinos[Chi2GetNeutrino(ttReco).v],
           jets[GetJet(ttReco, "bTopLep").v], jets[GetJet(ttReco, "bTopHad").v],
           jets[GetJet(ttReco, "q1TopHad").v], jets[GetJet(ttReco, "q2TopHad").v])

\* C20: in the chi-squared plugin, after an event with status Success and a
\* set assignment, GetNeutrino returns a candidate with which the accepted
\* tuple has its minimal chi-squared: that chi-squared equals -GetRank(), also
\* when several tuples or candidates tie.
C20_NeutrinoOfAccepted ==
    (EngineRan /\ plugin = "Chi2" /\ GetRecoStatus(ttReco) = 0 /\ AllJetsSet) =>
        /\ ~Chi2GetNeutrino(ttReco).throws
        /\ Chi2OfAccepted = Neg(GetRank(ttReco))

\* A successful chi-squared event in which GetNeutrino is the second
\* candidate, another tuple ties with the accepted one, and the accepted
\* tuple has a greater chi-squared with the first candidate
C20_SecondCandidateWithTie ==
    /\ EngineRan
    /\ plugin = "Chi2"
    /\ GetRecoStatus(ttReco) = 0
    /\ AllJetsSet
    /\ Chi2GetNeutrino(ttReco).v = 2
    /\ \E j, k \in 1..Len(calls) :
          /\ j < k
          /\ StoredJetsAre(j)
          /\ calls[k].rank = GetRank(ttReco)
          /\ Gt(Chi2OfCall(j, 1), Chi2OfCall(j, 2))

\* NuRecoRunI::ProcessEvent has returned for the current event
NuProcessed == plugin = "Chi2" /\ (pc = "ttReco" \/ Processed)

\* C21: after NuRecoRunI::ProcessEvent, GetNeutrinos holds only candidates
\* reconstructed in the current event: the list is empty when the event has
\* no lepton or when the reconstruction gives up, and otherwise it is the
\* list of solutions for the lepton and the MET of this event.
C21_OnlyCurrentCandidates ==
    NuProcessed =>
        nuReco.neutrinos =
            IF Len(leptons) = 0 THEN <<>> ELSE SolveNeutrinos(leptons[1], met)

\* An event without lepton after which GetNeutrinos is not empty
C21_CandidatesOfEarlierEvent ==
    NuProcessed /\ Len(leptons) = 0 /\ Len(nuReco.neutrinos) > 0

\* NuRecoRunI::ProcessEvent has solved the quadratic equation for the lepton
\* and the MET of the current event
NuSolved == NuProcessed /\ Len(leptons) > 0

\* C22 as stated: whenever the discriminant b^2 - 4ac is positive, the solver
\* emits exactly 2 candidates, both with the measured transverse MET, with
\* pz = (-b - sqrt(D))/(2a) and pz = (-b + sqrt(D))/(2a).
C22_TwoCandidates ==
    (NuSolved /\ Gt(Discriminant(leptons[1], met), 0)) =>
        /\ Len(nuReco.neutrinos) = 2
        /\ \A i \in 1..2 :
              /\ nuReco.neutrinos[i].px = met.px
              /\ nuReco.neutrinos[i].py = met.py
        /\ nuReco.neutrinos[1].pz =
              Div(Sub(Neg(QuadB(leptons[1], met)), Sqrt(Discriminant(leptons[1], met))),
                  Mul(2, QuadA(leptons[1])))
        /\ nuReco.neutrinos[2].pz =
              Div(Add(Neg(QuadB(leptons[1], met)), Sqrt(Discriminant(leptons[1], met))),
                  Mul(2, QuadA(leptons[1])))

\* C22, amended: whenever a is not zero and the discriminant is positive, the
\* solver emits exactly 2 candidates, both with the measured transverse MET,
\* with pz = (-b - sqrt(D))/(2a) and pz = (-b + sqrt(D))/(2a); when a is zero
\* it emits exactly 1 candidate, with the measured transverse MET and
\* pz = -c/b, whatever the discriminant.
C22_TwoCandidatesUnlessLinear ==
    /\ (NuSolved /\ ~Eq(QuadA(leptons[1]), 0) /\ Gt(Discriminant(leptons[1], met), 0)) =>
        /\ Len(nuReco.neutrinos) = 2
        /\ \A i \in 1..2 :
              /\ nuReco.neutrinos[i].px = met.px
              /\ nuReco.neutrinos[i].py = met.py
        /\ nuReco.neutrinos[1].pz =
              Div(Sub(Neg(QuadB(leptons[1], met)), Sqrt(Discriminant(leptons[1], met))),
                  Mul(2, QuadA(leptons[1])))
        /\ nuReco.neutrinos[2].pz =
              Div(Add(Neg(QuadB(leptons[1], met)), Sqrt(Discriminant(leptons[1], met))),
                  Mul(2, QuadA(leptons[1])))
    /\ (NuSolved /\ Eq(QuadA(leptons[1]), 0)) =>
        /\ Len(nuReco.neutrinos) = 1
        /\ nuReco.neutrinos[1].px = met.px
        /\ nuReco.neutrinos[1].py = met.py
        /\ nuReco.neutrinos[1].pz =
              Div(Neg(QuadC(leptons[1], met)), QuadB(leptons[1], met))

\* A lepton in the transverse plane and a nonzero MET with a positive
\* discriminant, solved with two different roots
C22_TwoDistinctRoots ==
    /\ NuSolved
    /\ ~Eq(QuadA(leptons[1]), 0)
    /\ Gt(Discriminant(leptons[1], met), 0)
    /\ met.m > 0
    /\ Len(nuReco.neutrinos) = 2
    /\ nuReco.neutrinos[1].pz < nuReco.neutrinos[2].pz

\* C23: whenever the discriminant is negative, the solver returns exactly 1
\* candidate; its transverse momentum is positive, is collinear with the
\* measured MET and points the same way, and with it in place of the MET the
\* discriminant is exactly 0.
C23_OneAdjustedCandidate ==
    (NuSolved /\ Lt(Discriminant(leptons[1], met), 0)) =>
        /\ Len(nuReco.neutrinos) = 1
        /\ nuReco.neutrinos[1].pt > 0
        /\ nuReco.neutrinos[1].px * met.py = nuReco.neutrinos[1].py * met.px
        /\ nuReco.neutrinos[1].px * met.px + nuReco.neutrinos[1].py * met.py > 0
        /\ Eq(Discriminant(leptons[1], Met(nuReco.neutrinos[1].px, nuReco.neutrinos[1].py)), 0)

\* A negative discriminant for a MET along the negative y axis, solved with
\* one candidate of a smaller transverse momentum
C23_AdjustedAlongY ==
    /\ NuSolved
    /\ Lt(Discriminant(leptons[1], met), 0)
    /\ met.py < 0
    /\ Len(nuReco.neutrinos) = 1
    /\ nuReco.neutrinos[1].pt < met.m

\* C24: in the likelihood plugin GetBest is called only for a (lepton,
\* leptonic-b) pair that IsReconstructable accepts; for a pair it refuses,
\* ComputeRank returns -infinity without calling GetBest and leaves the
\* object (cache, neutrino, flags) as it was.
C24_GetBestOnlyIfReconstructable ==
    (EngineRan /\ plugin = "Rochester") =>
        \A k \in 1..Len(calls) :
            /\ calls[k].solver = "best" =>
                  IsReconstructable(leptons[1], jets[calls[k].jets[1]])
            /\ ~IsReconstructable(leptons[1], jets[calls[k].jets[1]]) =>
                  /\ calls[k].rank = NegInf
                  /\ calls[k].solver = "ctor"
                  /\ ~calls[k].changed

\* An event of the likelihood plugin in which one tuple has an
\* unreconstructable pair, after a tuple for which GetBest was called and
\* the object changed
C24_RefusedAfterSolved ==
    /\ EngineRan
    /\ plugin = "Rochester"
    /\ \E j, k \in 1..Len(calls) :
          /\ j < k
          /\ calls[j].solver = "best"
          /\ calls[j].changed
          /\ ~IsReconstructable(leptons[1], jets[calls[k].jets[1]])

\* What the reconstruction plugin r exposes through its accessors
Exposed(r) ==
    [status |-> GetRecoStatus(r),
     rank |-> GetRank(r),
     jets |-> [type \in DecayJets |-> GetJet(r, type)],
     neutrino |-> IF plugin = "Chi2" THEN Chi2GetNeutrino(r) ELSE RochesterGetNeutrino(r)]

\* The plugin as configured in this run, before its first event; g is the
\* value of its uninitialised members
Fresh(g) ==
    [Constructed(g) EXCEPT !.minPt = ttReco.minPt, !.maxAbsEta = ttReco.maxAbsEta,
                           !.chi2Terms = ttReco.chi2Terms,
                           !.likelihoodSet = ttReco.likelihoodSet]

\* The plugin after the current event, had it been the first event of the run
FirstEventResult(g) ==
    IF plugin = "Chi2"
    THEN Chi2ProcessEvent(Fresh(g), jets, leptons, nuReco.neutrinos, met).r
    ELSE RochesterProcessEvent(Fresh(g), jets, leptons, nuReco.neutrinos, met).r

\* C25: event independence: what the reconstruction exposes after an event
\* (status, rank, the four jets or their absence, the neutrino) depends only
\* on the jets, lepton, MET and neutrino candidates of that event: it is what
\* a run exposes that processes this event first.
C25_EventIndependence ==
    Processed => \E g \in Uninitialised : Exposed(ttReco) = Exposed(FirstEventResult(g))

\* A second event without lepton after which the four jets of the first
\* event are exposed, unlike in any run that processes this event first
C25_ResultOfEarlierEvent ==
    /\ Processed
    /\ nEvents = 2
    /\ Len(leptons) = 0
    /\ AllJetsSet
    /\ \A g \in Uninitialised : Exposed(ttReco).jets # Exposed(FirstEventResult(g)).jets

\* The jet at position i is inside the eta range and below the pt threshold
EndsScan(i) ==
    Abs(jets[i].eta) <= ttReco.maxAbsEta /\ jets[i].pt < ttReco.minPt

\* C26: the scan skips a jet with |eta| > maxAbsEta and goes on, whatever its
\* pt; the first jet with |eta| <= maxAbsEta and pt < minPt ends it.  The
\* selected jets are those that pass both cuts and come before the first jet
\* that ends the scan, whatever the order of the collection.
C26_SelectionAsymmetric ==
    EngineRan =>
        SelectedSet =
            {i \in 1..Len(jets) : PassesSelection(i) /\ \A j \in 1..(i - 1) : ~EndsScan(j)}

\* An event in which a jet outside the eta range and below the pt threshold
\* is skipped, a later jet is selected, a jet then ends the scan and a jet
\* after it passes both cuts but is not selected
C26_Undersampling ==
    /\ EngineRan
    /\ \E h, i, j, k \in 1..Len(jets) :
          /\ h < i /\ i < j /\ j < k
          /\ Abs(jets[h].eta) > ttReco.maxAbsEta
          /\ jets[h].pt < ttReco.minPt
          /\ i \in SelectedSet
          /\ EndsScan(j)
          /\ PassesSelection(k)
          /\ k \notin SelectedSet

\* C27: the reconstruction status is written exactly once during the
\* processing of each event, for either plugin and every outcome.
C27_StatusWrittenOnce == Processed => nWrites = 1

\* An event of the likelihood plugin with four selected jets whose tuples are
\* all rejected, during which the status is written twice
C27_StatusWrittenTwice ==
    /\ EngineRan
    /\ plugin = "Rochester"
    /\ NSelected >= 4
    /\ ~SomeRankAboveNegInf
    /\ nWrites = 2

\* C28: in an accepted assignment q1TopHad comes before q2TopHad in the jet
\* collection, so that for a collection ordered in pt q1TopHad has the higher
\* (or equal) pt; in every invocation of ComputeRank the first light jet comes
\* before the second, and no two invocations with the same (bTopLep, bTopHad)
\* have the same unordered pair of light jets.
C28_LightJetsOrdered ==
    EngineRan =>
        /\ AllJetsSet =>
              /\ GetJet(ttReco, "q1TopHad").v < GetJet(ttReco, "q2TopHad").v
              /\ PtOrdered(jets) =>
                    jets[GetJet(ttReco, "q1TopHad").v].pt >= jets[GetJet(ttReco, "q2TopHad").v].pt
        /\ \A k \in 1..Len(calls) : calls[k].jets[3] < calls[k].jets[4]
        /\ \A j, k \in 1..Len(calls) :
              (j < k /\ calls[j].jets[1] = calls[k].jets[1] /\ calls[j].jets[2] = calls[k].jets[2])
                  => {calls[j].jets[3], calls[j].jets[4]} # {calls[k].jets[3], calls[k].jets[4]}

\* A pt-ordered event with an accepted assignment in which q1TopHad has a
\* higher pt than q2TopHad, and for whose b jets another pair of light jets
\* was evaluated
C28_LeadingAndSubleading ==
    /\ EngineRan
    /\ AllJetsSet
    /\ PtOrdered(jets)
    /\ jets[GetJet(ttReco, "q1TopHad").v].pt > jets[GetJet(ttReco, "q2TopHad").v].pt
    /\ \E j, k \in 1..Len(calls) :
          /\ j < k
          /\ StoredJetsAre(k)
          /\ calls[j].jets[1] = calls[k].jets[1]
          /\ calls[j].jets[2] = calls[k].jets[2]

\* C29: only jets that satisfy the selection are tried as decay products:
\* every jet passed to ComputeRank and every jet of the stored assignment has
\* pt >= minPt and |eta| <= maxAbsEta, whatever the order of the collection
\* and whatever the cuts.
C29_OnlySelectedJets ==
    EngineRan =>
        /\ \A k \in 1..Len(calls) : \A i \in 1..4 : PassesSelection(calls[k].jets[i])
        /\ \A type \in DecayJets :
              ~GetJet(ttReco, type).throws => PassesSelection(GetJet(ttReco, type).v)

\* An event whose jets are not ordered in pt, one of them outside the eta
\* range, in which an assignment was accepted
C29_AcceptedAmongRejected ==
    /\ EngineRan
    /\ ~PtOrdered(jets)
    /\ AllJetsSet
    /\ GetRecoStatus(ttReco) = 0
    /\ \E i \in 1..Len(jets) : Abs(jets[i].eta) > ttReco.maxAbsEta

\* C30: in the likelihood plugin, for an event with a lepton, the status is
\* Success if and only if some tuple received a log-likelihood above
\* -infinity; status 5 is reached only when some tuple passed both table
\* range checks and every such tuple had a log-likelihood of -infinity; and
\* Success implies that the lepton and the four jets are set.
C30_SuccessIffFiniteLikelihood ==
    (EngineRan /\ plugin = "Rochester") =>
        /\ GetRecoStatus(ttReco) = 0 <=> SomeRankAboveNegInf
        /\ GetRecoStatus(ttReco) = 5 =>
              /\ \E k \in 1..Len(calls) : MassInRangeIn(k)
              /\ \A k \in 1..Len(calls) : MassInRangeIn(k) => calls[k].rank = NegInf
        /\ GetRecoStatus(ttReco) = 0 =>
              /\ ~RochesterGetLepton(ttReco).throws
              /\ AllJetsSet

\* A second event of the likelihood plugin with status 5, in which every
\* tuple passed both range checks and none was accepted
C30_ZeroDensityOnly ==
    /\ EngineRan
    /\ plugin = "Rochester"
    /\ nEvents = 2
    /\ GetRecoStatus(ttReco) = 5
    /\ Len(calls) > 0
    /\ \A k \in 1..Len(calls) : MassInRangeIn(k)
    /\ AllJetsUnset

====
